---- MODULE Spec2Model ----
(***************************************************************************)
(* Model of the review-ingestion pipeline: ReviewScraper (fetch and        *)
(* partition), DataStorage (SQLite record store) and DailyBatchProcessor   *)
(* (per-day store-then-mark loop with a JSON status file).                 *)
(***************************************************************************)
EXTENDS Integers, Sequences, FiniteSets, TLC

\* ---------------------------------------------------------------- bounds
MaxIds == 3          \* review identifiers the upstream feed can serve
MaxQuota == 2        \* largest reviews_per_day argument
MaxDaysRange == 2    \* largest days_range argument
PageSize == 2        \* reviews per page of the upstream feed
MaxBatches == 2      \* cap on total_batches_processed for direct calls
MaxLen == 3          \* longest frame handed directly to the partitioner
MaxSeed == 1         \* largest salt of the str hash of a process
MaxTopics == 3       \* topic strings the extraction step can hand over

\* ------------------------------------------------------------ value model
ReviewIds == 1..MaxIds
\* the earliest date, 1, lies before the widest window
Today == MaxDaysRange + 2

\* the calendar date of a review's "at" timestamp: review 1 was written
\* yesterday, every later one today
DateOf(id) == IF id = 1 THEN Today - 1 ELSE Today
Review(id) == [reviewId |-> id, date |-> DateOf(id)]
Dates == {DateOf(id) : id \in ReviewIds}

\* date.strftime('%Y-%m-%d') and datetime.strptime(s, '%Y-%m-%d').date()
strftime(d) == [ymd |-> d]
strptime(s) == s.ymd

Range(s) == {s[k] : k \in 1..Len(s)}
Card(S) == Cardinality(S)
Min(a, b) == IF a < b THEN a ELSE b

\* ------------------------------------------------------- upstream feed
\* reviews(app, sort=NEWEST, count, continuation_token): page `token` of the
\* feed and the next token, None once the last page was served
FeedPage(f, token) ==
  IF (token - 1) * PageSize >= Len(f) THEN <<>>
  ELSE SubSeq(f, (token - 1) * PageSize + 1, Min(token * PageSize, Len(f)))
NoToken == 0
NextToken(f, token) == IF token * PageSize < Len(f) THEN token + 1 ELSE NoToken

\* ------------------------------------------------------- ReviewScraper
\* the body of "for review in batch": window test, per-day counter, quota
RECURSIVE AcceptPage(_, _, _, _, _)
AcceptPage(batch, all_reviews, counts, days_range, reviews_per_day) ==
  IF batch = <<>> THEN [all_reviews |-> all_reviews, counts |-> counts]
  ELSE LET review == Head(batch)
           d == review.date
           inWindow == (Today - days_range <= d) /\ (d <= Today)
           c1 == IF inWindow /\ d \notin DOMAIN counts
                 THEN counts @@ (d :> 0) ELSE counts
           take == inWindow /\ c1[d] < reviews_per_day
           all2 == IF take THEN Append(all_reviews, review) ELSE all_reviews
           c2 == IF take THEN [c1 EXCEPT ![d] = @ + 1] ELSE c1
       IN AcceptPage(Tail(batch), all2, c2, days_range, reviews_per_day)

\* the while loop of scrape_historical_reviews
RECURSIVE ScrapeLoop(_, _, _, _, _, _)
ScrapeLoop(f, token, all_reviews, counts, days_range, reviews_per_day) ==
  IF ~(Card(DOMAIN counts) < days_range) THEN all_reviews
  ELSE LET batch == FeedPage(f, token)
           next == NextToken(f, token)
       IN IF batch = <<>> THEN all_reviews
          ELSE LET acc == AcceptPage(batch, all_reviews, counts,
                                     days_range, reviews_per_day)
                   days_with_enough_reviews ==
                     Card({d \in DOMAIN acc.counts :
                             acc.counts[d] >= reviews_per_day})
               IN IF days_with_enough_reviews >= days_range \/ next = NoToken
                  THEN acc.all_reviews
                  ELSE ScrapeLoop(f, next, acc.all_reviews, acc.counts,
                                  days_range, reviews_per_day)

\* df.sort_values("date", ascending=False): insertion of r behind the rows
\* that are not older than it
RECURSIVE InsertByDate(_, _)
InsertByDate(r, s) ==
  IF s = <<>> THEN <<r>>
  ELSE IF Head(s).date >= r.date THEN <<Head(s)>> \o InsertByDate(r, Tail(s))
       ELSE <<r>> \o s
RECURSIVE SortNewestFirst(_)
SortNewestFirst(s) ==
  IF s = <<>> THEN <<>>
  ELSE InsertByDate(s[Len(s)], SortNewestFirst(SubSeq(s, 1, Len(s) - 1)))

scrape_historical_reviews(f, days_range, reviews_per_day) ==
  SortNewestFirst(ScrapeLoop(f, 1, <<>>, <<>>, days_range, reviews_per_day))

\* df['date'].unique(): the dates in order of first appearance
RECURSIVE UniqueDates(_)
UniqueDates(df) ==
  IF df = <<>> THEN <<>>
  ELSE LET rest == UniqueDates(SubSeq(df, 1, Len(df) - 1))
           d == df[Len(df)].date
       IN IF d \in Range(rest) THEN rest ELSE Append(rest, d)

\* head that keeps one row too many
head_one_more(s, n) == SubSeq(s, 1, Min(n + 1, Len(s)))

\* DataFrame.head(n)
head(s, n) == SubSeq(s, 1, Min(n, Len(s)))

DayGroup(df, d) == SelectSeq(df, LAMBDA r : r.date = d)

\* one entry of daily_batches
DayBatch(df, d, reviews_per_day) ==
  IF Len(DayGroup(df, d)) > reviews_per_day
  THEN head(DayGroup(df, d), reviews_per_day)
  ELSE DayGroup(df, d)

\* the dict returned by split_into_daily_batches: its keys in insertion
\* order and the frame filed under each key
split_into_daily_batches(df, reviews_per_day) ==
  [keys  |-> UniqueDates(df),
   batch |-> [d \in Range(UniqueDates(df)) |-> DayBatch(df, d, reviews_per_day)]]

\* --------------------------------------------------------- DataStorage
APP_ID == "in.swiggy.android"

\* the salt of the str hash in the running interpreter
VARIABLE hash_seed

\* hash(row['content']): one value per content within a process, another
\* under another salt
hash(content) == content + hash_seed * MaxIds

\* f"rev_{hash(row['content'])}_{row['at'].timestamp()}", kept apart from
\* the identifiers the feed hands out
SynthesizedId(row) == MaxIds + hash(row.content) * (Today + 1) + row.date

\* the tuples built by "for _, row in df.iterrows()"; line 85 falls back
\* on the synthesized identifier for a row without reviewId
Records(df, batch_date) ==
  [k \in 1..Len(df) |->
     [review_id  |-> IF "reviewId" \in DOMAIN df[k] THEN df[k].reviewId
                     ELSE SynthesizedId(df[k]),
      date       |-> strftime(df[k].date),
      app_id     |-> APP_ID,
      batch_date |-> strftime(batch_date)]]

\* executemany(INSERT OR IGNORE INTO raw_reviews ...): review_id is the
\* primary key, a record whose key is present is skipped
RECURSIVE InsertOrIgnore(_, _)
InsertOrIgnore(tbl, records) ==
  IF records = <<>> THEN tbl
  ELSE LET r == Head(records)
           t2 == IF r.review_id \in DOMAIN tbl THEN tbl
                 ELSE tbl @@ (r.review_id :>
                        [date |-> r.date, app_id |-> r.app_id,
                         batch_date |-> r.batch_date])
       IN InsertOrIgnore(t2, Tail(records))

\* the rows handed to the executemany in the place of the rows it added
attempted_count(tbl, records) == Len(records)

\* cursor.rowcount after the executemany: the rows it added
inserted_count(tbl, records) ==
  Card(DOMAIN InsertOrIgnore(tbl, records)) - Card(DOMAIN tbl)

\* INSERT OR REPLACE INTO batch_processing (batch_date, review_count, ...)
InsertOrReplace(tbl, key, count) ==
  [k \in DOMAIN tbl \cup {key} |-> IF k = key THEN count ELSE tbl[k]]

\* ------------------------------------------------- DailyBatchProcessor
\* JSON null in last_processed_date, and "no date" in a local
NoDate == 0
null == [ymd |-> NoDate]

\* the status built by _load_processing_status when the file is absent
EmptyStatus ==
  [processed_dates |-> <<>>,
   last_processed_date |-> null,
   total_batches_processed |-> 0,
   batch_stats |-> <<>>]

\* processing_status.json: absent, a JSON document, or a truncated document
AbsentFile  == [kind |-> "absent",  data |-> EmptyStatus]
CorruptFile == [kind |-> "corrupt", data |-> EmptyStatus]
\* json.dump(self.processing_status, f, indent=2, default=str)
JsonFile(status) == [kind |-> "json", data |-> status]

\* get_unprocessed_dates without the filter
get_unprocessed_dates_unfiltered(status, all_available_dates) ==
  all_available_dates

get_unprocessed_dates(status, all_available_dates) ==
  LET processed_dates ==
        {strptime(status.processed_dates[k]) :
           k \in 1..Len(status.processed_dates)}
  IN SelectSeq(all_available_dates, LAMBDA d : d \notin processed_dates)

\* MarkStatus without the append to processed_dates
MarkStatusForgetsDate(status, date, review_count) ==
  [processed_dates |-> status.processed_dates,
   last_processed_date |-> strftime(date),
   total_batches_processed |-> status.total_batches_processed + 1,
   batch_stats |->
     [k \in DOMAIN status.batch_stats \cup {strftime(date)} |->
        IF k = strftime(date) THEN [review_count |-> review_count]
        ELSE status.batch_stats[k]]]

\* lines 76-90 of _mark_date_processed: the in-memory update before the flush
MarkStatus(status, date, review_count) ==
  LET date_str == strftime(date)
  IN [processed_dates |->
        IF date_str \notin Range(status.processed_dates)
        THEN Append(status.processed_dates, date_str)
        ELSE status.processed_dates,
      last_processed_date |-> date_str,
      total_batches_processed |-> status.total_batches_processed + 1,
      batch_stats |->
        [k \in DOMAIN status.batch_stats \cup {date_str} |->
           IF k = date_str THEN [review_count |-> review_count]
           ELSE status.batch_stats[k]]]

\* EntryPc with the store call left out
EntryPcSkipsStore(frame) == "mark"

\* process_single_day_batch, lines 56-62: an empty frame goes straight to
\* _mark_date_processed, any other frame to store_daily_batch first
EntryPc(frame) == IF frame = <<>> THEN "mark" ELSE "store"

\* ------------------------------------------------------------- state
VARIABLES
  feed,               \* what the upstream feed serves, newest first
  days_range,         \* arguments of process_historical_data
  reviews_per_day,
  status_file,        \* processing_status.json
  raw_reviews,        \* table raw_reviews: review_id -> row
  batch_processing,   \* table batch_processing: batch_date -> review_count
  pc,                 \* position of the process; "nil" when none is running
  processing_status,  \* DailyBatchProcessor.processing_status
  caller,             \* who entered process_single_day_batch
  all_reviews_df,     \* locals of process_historical_data
  daily_batches,
  unprocessed_dates,
  i,
  success_count,
  failed_dates,
  result,             \* value returned by the last process_historical_data
  target_date,        \* arguments and locals of process_single_day_batch
  daily_reviews,
  success,
  exc,                \* where the exception caught at line 70 was raised
  continuation_token, \* locals of scrape_historical_reviews
  batch,
  cursor,             \* how many reviews of batch the for loop has handled
  all_reviews,
  daily_review_counts

VARIABLES
  collection,          \* the chroma collection "topics": its records
  distance,            \* what the index reports between two embeddings
  raw_topics,          \* argument of consolidate_topics
  consolidated_topics, \* local of consolidate_topics, then its result
  reviews_df,          \* argument of extract_topics_from_batch
  all_topics,          \* local of extract_topics_from_batch, then its result
  llm_log,             \* the prompts the oracle received, with its answers
  conn                 \* the sqlite3 connection of store_daily_batch

durable == <<status_file, raw_reviews, batch_processing>>
args    == <<days_range, reviews_per_day>>
runvars == <<all_reviews_df, daily_batches, unprocessed_dates, i,
             success_count, failed_dates>>
dayvars == <<target_date, daily_reviews, success, exc>>
scrapevars == <<continuation_token, batch, cursor, all_reviews,
                daily_review_counts>>
topicvars == <<collection, distance, raw_topics, consolidated_topics,
               reviews_df, all_topics, llm_log>>
vars    == <<feed, hash_seed, scrapevars, topicvars, conn, args,
             durable, pc, processing_status, caller,
             runvars, result, dayvars>>

NoBatches == [keys |-> <<>>, batch |-> <<>>]
NoResult  == [status |-> "none"]

\* the feed after n reviews were published: all of them, newest first
RECURSIVE FeedOf(_)
FeedOf(n) == IF n = 0 THEN <<>> ELSE <<Review(n)>> \o FeedOf(n - 1)
Feeds == {FeedOf(n) : n \in 0..MaxIds}

FileDates ==
  IF status_file.kind = "json" THEN Range(status_file.data.processed_dates)
  ELSE {}
MemDates ==
  IF pc \in {"nil", "load_failed"} THEN {}
  ELSE Range(processing_status.processed_dates)
StoredIds == DOMAIN raw_reviews

\* a process that has just been constructed holds no locals
FreshLocals ==
  /\ caller = "none"
  /\ all_reviews_df = <<>>
  /\ daily_batches = NoBatches
  /\ unprocessed_dates = <<>>
  /\ i = 0
  /\ success_count = 0
  /\ failed_dates = <<>>
  /\ result = NoResult
  /\ target_date = NoDate
  /\ daily_reviews = <<>>
  /\ success = FALSE
  /\ exc = "none"

\* lines 28-30: the locals scrape_historical_reviews starts with
ScraperStart ==
  /\ continuation_token = NoToken
  /\ batch = <<>>
  /\ cursor = 0
  /\ all_reviews = <<>>
  /\ daily_review_counts = <<>>

\* no connection is open between calls of store_daily_batch
NoConn == [open |-> FALSE]

\* nothing of the second stage has run: the collection was just created
NoDistance == <<>>
TopicStart ==
  /\ collection = {}
  /\ distance = NoDistance
  /\ raw_topics = <<>>
  /\ consolidated_topics = <<>>
  /\ reviews_df = <<>>
  /\ all_topics = <<>>
  /\ llm_log = <<>>

\* main.py, line 38, passes one days_range to every run
Init ==
  /\ feed \in Feeds
  /\ hash_seed = 0
  /\ ScraperStart
  /\ conn = NoConn
  /\ TopicStart
  /\ days_range = MaxDaysRange
  /\ reviews_per_day \in 1..MaxQuota
  /\ status_file = AbsentFile
  /\ raw_reviews = <<>>
  /\ batch_processing = <<>>
  /\ pc = "nil"
  /\ processing_status = EmptyStatus
  /\ FreshLocals

\* the locals of a process that ended are gone
ResetLocals ==
  /\ caller' = "none"
  /\ all_reviews_df' = <<>>
  /\ daily_batches' = NoBatches
  /\ unprocessed_dates' = <<>>
  /\ i' = 0
  /\ success_count' = 0
  /\ failed_dates' = <<>>
  /\ result' = NoResult
  /\ target_date' = NoDate
  /\ daily_reviews' = <<>>
  /\ success' = FALSE
  /\ exc' = "none"

\* ------------------------------------------------------ process life cycle
\* DailyBatchProcessor.__init__: _load_processing_status reads the file
Construct ==
  /\ pc = "nil"
  /\ status_file.kind # "corrupt"
  /\ processing_status' =
       IF status_file.kind = "json" THEN status_file.data ELSE EmptyStatus
  /\ pc' = "idle"
  /\ UNCHANGED <<feed, conn, topicvars, hash_seed, scrapevars, args,
                 durable, caller, runvars, result, dayvars>>

\* a truncated document taken for a missing one
ConstructStartsEmpty ==
  /\ pc = "nil"
  /\ status_file.kind = "corrupt"
  /\ processing_status' = EmptyStatus
  /\ pc' = "idle"
  /\ UNCHANGED <<feed, conn, topicvars, hash_seed, scrapevars, args,
                 durable, caller, runvars, result,
                 dayvars>>

\* json.load raises on a truncated document and __init__ propagates it
ConstructFails ==
  /\ pc = "nil"
  /\ status_file.kind = "corrupt"
  /\ pc' = "load_failed"
  /\ UNCHANGED <<feed, conn, topicvars, hash_seed, scrapevars, args,
                 durable, processing_status, caller, runvars,
                 result, dayvars>>

\* the process ends between calls
Exit ==
  /\ pc = "idle"
  /\ pc' = "nil"
  /\ processing_status' = EmptyStatus
  /\ ResetLocals
  /\ UNCHANGED <<feed, conn, topicvars, hash_seed, scrapevars, args,
                 durable>>

\* the process is killed or interrupted inside a call; nothing was being
\* written to the status file
Crash ==
  /\ pc \in {"loop", "store", "mark", "save", "ret"}
  /\ pc' = "nil"
  /\ processing_status' = EmptyStatus
  /\ ResetLocals
  /\ UNCHANGED <<feed, conn, topicvars, hash_seed, scrapevars, args,
                 durable>>

\* the process is killed or interrupted inside _save_processing_status after
\* open(..., 'w') truncated the file and before the document was complete
CrashInSave ==
  /\ pc = "save"
  /\ status_file' = CorruptFile
  /\ pc' = "nil"
  /\ processing_status' = EmptyStatus
  /\ ResetLocals
  /\ UNCHANGED <<feed, conn, topicvars, hash_seed, scrapevars, args,
                 raw_reviews, batch_processing>>

\* further reviews are published upstream
UpstreamChange ==
  /\ pc = "nil"
  /\ feed' \in {f \in Feeds : Len(f) > Len(feed)}
  /\ UNCHANGED <<hash_seed, conn, scrapevars, topicvars, args, durable, pc,
                 processing_status, caller, runvars,
                 result, dayvars>>

\* ------------------------------------------------ process_historical_data
Scraped == scrape_historical_reviews(feed, days_range, reviews_per_day)
Batches == split_into_daily_batches(Scraped, reviews_per_day)
\* the unprocessed dates taken to be those behind the last processed one
UnprocessedByRange ==
  SelectSeq(Batches.keys,
            LAMBDA d : \A k \in 1..Len(processing_status.processed_dates) :
                         d > strptime(processing_status.processed_dates[k]))

Unprocessed == get_unprocessed_dates(processing_status, Batches.keys)

\* RunNoReviews with today booked as an empty day
RunNoReviewsMarksToday ==
  /\ pc = "idle"
  /\ Scraped = <<>>
  /\ result' = [status |-> "failed", error |-> "No reviews collected"]
  /\ processing_status' = MarkStatus(processing_status, Today, 0)
  /\ UNCHANGED <<feed, conn, topicvars, hash_seed, scrapevars, args,
                 durable, pc, caller, runvars,
                 dayvars>>

\* lines 101-105: nothing was collected
RunNoReviews ==
  /\ pc = "idle"
  /\ Scraped = <<>>
  /\ result' = [status |-> "failed", error |-> "No reviews collected"]
  /\ UNCHANGED <<feed, conn, topicvars, hash_seed, scrapevars, args,
                 durable, pc, processing_status, caller,
                 runvars, dayvars>>

\* lines 101-120: every available date is already processed
RunNothingToDo ==
  /\ pc = "idle"
  /\ Scraped # <<>>
  /\ Unprocessed = <<>>
  /\ result' = [status |-> "completed", processed |-> 0]
  /\ UNCHANGED <<feed, conn, topicvars, hash_seed, scrapevars, args,
                 durable, pc, processing_status, caller,
                 runvars, dayvars>>

\* RunBegin with every available date taken as unprocessed
RunBeginRetriesAll ==
  /\ pc = "idle"
  /\ Scraped # <<>>
  /\ all_reviews_df' = Scraped
  /\ daily_batches' = Batches
  /\ unprocessed_dates' = Batches.keys
  /\ success_count' = 0
  /\ failed_dates' = <<>>
  /\ i' = 1
  /\ pc' = "loop"
  /\ UNCHANGED <<feed, conn, topicvars, hash_seed, scrapevars, args,
                 durable, processing_status, caller, result,
                 dayvars>>

\* lines 101-125: the run enters the per-day loop
RunBegin ==
  /\ pc = "idle"
  /\ Scraped # <<>>
  /\ Unprocessed # <<>>
  /\ all_reviews_df' = Scraped
  /\ daily_batches' = Batches
  /\ unprocessed_dates' = Unprocessed
  /\ success_count' = 0
  /\ failed_dates' = <<>>
  /\ i' = 1
  /\ pc' = "loop"
  /\ UNCHANGED <<feed, conn, topicvars, hash_seed, scrapevars, args,
                 durable, processing_status, caller, result,
                 dayvars>>

\* lines 128-132 and 53-62: the next unprocessed date enters
\* process_single_day_batch
FetchDay ==
  /\ pc = "loop"
  /\ i <= Len(unprocessed_dates)
  /\ caller' = "run"
  /\ target_date' = unprocessed_dates[i]
  /\ daily_reviews' = daily_batches.batch[unprocessed_dates[i]]
  /\ success' = FALSE
  /\ exc' = "none"
  /\ pc' = EntryPc(daily_batches.batch[unprocessed_dates[i]])
  /\ UNCHANGED <<feed, conn, topicvars, hash_seed, scrapevars, args,
                 durable, processing_status, runvars, result>>

\* Summarize with the successes read off the processed set
SummarizeCountsProcessed ==
  /\ pc = "loop"
  /\ i > Len(unprocessed_dates)
  /\ result' = [status |-> "completed",
                total_available_dates |-> Len(daily_batches.keys),
                total_attempted |-> Len(unprocessed_dates),
                successful |-> Len(processing_status.processed_dates),
                failed |-> Len(failed_dates),
                failed_dates |-> failed_dates,
                total_batches_processed |->
                  processing_status.total_batches_processed]
  /\ pc' = "idle"
  /\ caller' = "none"
  /\ all_reviews_df' = <<>>
  /\ daily_batches' = NoBatches
  /\ unprocessed_dates' = <<>>
  /\ i' = 0
  /\ success_count' = 0
  /\ failed_dates' = <<>>
  /\ target_date' = NoDate
  /\ daily_reviews' = <<>>
  /\ success' = FALSE
  /\ exc' = "none"
  /\ UNCHANGED <<feed, conn, topicvars, hash_seed, scrapevars, args,
                 durable, processing_status>>

\* lines 139-154: the loop is over and the summary is returned; the locals
\* of the call are gone
Summarize ==
  /\ pc = "loop"
  /\ i > Len(unprocessed_dates)
  /\ result' = [status |-> "completed",
                total_available_dates |-> Len(daily_batches.keys),
                total_attempted |-> Len(unprocessed_dates),
                successful |-> success_count,
                failed |-> Len(failed_dates),
                failed_dates |-> failed_dates,
                total_batches_processed |->
                  processing_status.total_batches_processed]
  /\ pc' = "idle"
  /\ caller' = "none"
  /\ all_reviews_df' = <<>>
  /\ daily_batches' = NoBatches
  /\ unprocessed_dates' = <<>>
  /\ i' = 0
  /\ success_count' = 0
  /\ failed_dates' = <<>>
  /\ target_date' = NoDate
  /\ daily_reviews' = <<>>
  /\ success' = FALSE
  /\ exc' = "none"
  /\ UNCHANGED <<feed, conn, topicvars, hash_seed, scrapevars, args,
                 durable, processing_status>>

\* ----------------------------------------------- process_single_day_batch
\* the frames a caller other than the loop hands in for a date: none, or
\* what the feed holds for it
DirectFrames(d) == {<<>>, DayBatch(feed, d, reviews_per_day)}

\* process_single_day_batch called on the processor directly
DirectCall ==
  /\ pc = "idle"
  /\ processing_status.total_batches_processed < MaxBatches
  /\ \E d \in Dates : \E frame \in DirectFrames(d) :
       /\ target_date' = d
       /\ daily_reviews' = frame
       /\ pc' = EntryPc(frame)
  /\ caller' = "direct"
  /\ success' = FALSE
  /\ exc' = "none"
  /\ UNCHANGED <<feed, conn, topicvars, hash_seed, scrapevars, args,
                 durable, processing_status, runvars, result>>

\* INSERT OR REPLACE in the place of INSERT OR IGNORE
InsertOrReplaceRows(tbl, records) ==
  [id \in DOMAIN tbl \cup {records[k].review_id : k \in 1..Len(records)} |->
     IF \E k \in 1..Len(records) : records[k].review_id = id
     THEN LET r == records[CHOOSE k \in 1..Len(records) :
                             records[k].review_id = id]
          IN [date |-> r.date, app_id |-> r.app_id, batch_date |-> r.batch_date]
     ELSE tbl[id]]

\* StoreCommit with stored rows overwritten by the batch
StoreCommitReplaces ==
  /\ pc = "store"
  /\ raw_reviews' =
       InsertOrReplaceRows(raw_reviews, Records(daily_reviews, target_date))
  /\ batch_processing' =
       InsertOrReplace(batch_processing, strftime(target_date),
         inserted_count(raw_reviews, Records(daily_reviews, target_date)))
  /\ pc' = "mark"
  /\ UNCHANGED <<feed, conn, topicvars, hash_seed, scrapevars, args,
                 status_file, processing_status,
                 caller, runvars, result, dayvars>>

\* store_daily_batch, lines 72-113: both statements and the commit
StoreCommit ==
  /\ pc = "store"
  /\ raw_reviews' =
       InsertOrIgnore(raw_reviews, Records(daily_reviews, target_date))
  /\ batch_processing' =
       InsertOrReplace(batch_processing, strftime(target_date),
         inserted_count(raw_reviews, Records(daily_reviews, target_date)))
  /\ pc' = "mark"
  /\ UNCHANGED <<feed, conn, topicvars, hash_seed, scrapevars, args,
                 status_file, processing_status, caller,
                 runvars, result, dayvars>>

\* StoreFails with the date marked although the store call raised
StoreFailsButMarks ==
  /\ pc = "store"
  /\ exc' = "store"
  /\ success' = FALSE
  /\ processing_status' =
       MarkStatus(processing_status, target_date, Len(daily_reviews))
  /\ pc' = "ret"
  /\ UNCHANGED <<feed, conn, topicvars, hash_seed, scrapevars, args,
                 durable, caller, runvars, result, target_date,
                 daily_reviews>>

\* store_daily_batch raises before the commit (lines 117-119) and
\* process_single_day_batch catches it (lines 70-72)
StoreFails ==
  /\ pc = "store"
  /\ exc' = "store"
  /\ success' = FALSE
  /\ pc' = "ret"
  /\ UNCHANGED <<feed, conn, topicvars, hash_seed, scrapevars, args,
                 durable, processing_status, caller, runvars,
                 result, target_date, daily_reviews>>

\* Mark with the batch counter left alone for a date already processed
MarkCountsNewDatesOnly ==
  /\ pc = "mark"
  /\ processing_status' =
       [MarkStatus(processing_status, target_date, Len(daily_reviews))
          EXCEPT !.total_batches_processed =
            IF strftime(target_date) \in Range(processing_status.processed_dates)
            THEN processing_status.total_batches_processed
            ELSE processing_status.total_batches_processed + 1]
  /\ pc' = "save"
  /\ UNCHANGED <<feed, conn, topicvars, hash_seed, scrapevars, args, durable, caller, runvars,
                 result, dayvars>>

\* _mark_date_processed, lines 76-90
Mark ==
  /\ pc = "mark"
  /\ processing_status' =
       MarkStatus(processing_status, target_date, Len(daily_reviews))
  /\ pc' = "save"
  /\ UNCHANGED <<feed, conn, topicvars, hash_seed, scrapevars, args,
                 durable, caller, runvars, result, dayvars>>

\* _save_processing_status rewrites the file; the day returns True
SaveOK ==
  /\ pc = "save"
  /\ status_file' = JsonFile(processing_status)
  /\ success' = TRUE
  /\ pc' = "ret"
  /\ UNCHANGED <<feed, conn, topicvars, hash_seed, scrapevars, args,
                 raw_reviews, batch_processing,
                 processing_status, caller, runvars, result, target_date,
                 daily_reviews, exc>>

\* open(..., 'w') raises: the file is as it was, the day returns False
SaveFailsOnOpen ==
  /\ pc = "save"
  /\ exc' = "save"
  /\ success' = FALSE
  /\ pc' = "ret"
  /\ UNCHANGED <<feed, conn, topicvars, hash_seed, scrapevars, args,
                 durable, processing_status, caller, runvars,
                 result, target_date, daily_reviews>>

\* the write raises after the file was truncated: the day returns False
SaveFailsOnWrite ==
  /\ pc = "save"
  /\ status_file' = CorruptFile
  /\ exc' = "save"
  /\ success' = FALSE
  /\ pc' = "ret"
  /\ UNCHANGED <<feed, conn, topicvars, hash_seed, scrapevars, args,
                 raw_reviews, batch_processing,
                 processing_status, caller, runvars, result, target_date,
                 daily_reviews>>

\* ReturnToLoop with the loop left at the first failed day
ReturnToLoopStopsOnFailure ==
  /\ pc = "ret"
  /\ caller = "run"
  /\ success_count' = IF success THEN success_count + 1 ELSE success_count
  /\ failed_dates' =
       IF success THEN failed_dates ELSE Append(failed_dates, target_date)
  /\ i' = IF success THEN i + 1 ELSE Len(unprocessed_dates) + 1
  /\ pc' = "loop"
  /\ UNCHANGED <<feed, conn, topicvars, hash_seed, scrapevars, args,
                 durable, processing_status, caller,
                 all_reviews_df, daily_batches, unprocessed_dates, result,
                 dayvars>>

\* lines 134-137: the loop books the day's outcome
ReturnToLoop ==
  /\ pc = "ret"
  /\ caller = "run"
  /\ success_count' = IF success THEN success_count + 1 ELSE success_count
  /\ failed_dates' =
       IF success THEN failed_dates ELSE Append(failed_dates, target_date)
  /\ i' = i + 1
  /\ pc' = "loop"
  /\ UNCHANGED <<feed, conn, topicvars, hash_seed, scrapevars, args,
                 durable, processing_status, caller,
                 all_reviews_df, daily_batches, unprocessed_dates, result,
                 dayvars>>

\* a direct call returns to its caller
ReturnToCaller ==
  /\ pc = "ret"
  /\ caller = "direct"
  /\ pc' = "idle"
  /\ caller' = "none"
  /\ target_date' = NoDate
  /\ daily_reviews' = <<>>
  /\ success' = FALSE
  /\ exc' = "none"
  /\ UNCHANGED <<feed, conn, topicvars, hash_seed, scrapevars, args,
                 durable, processing_status, runvars, result>>

\* ---------------------------------------------------------- specifications
\* everything: runs, direct calls, I/O failures, interruptions
Next ==
  \/ Construct \/ ConstructFails \/ Exit \/ Crash \/ CrashInSave
  \/ UpstreamChange
  \/ RunNoReviews \/ RunNothingToDo \/ RunBegin \/ FetchDay \/ Summarize
  \/ DirectCall \/ StoreCommit \/ StoreFails \/ Mark
  \/ SaveOK \/ SaveFailsOnOpen \/ SaveFailsOnWrite
  \/ ReturnToLoop \/ ReturnToCaller

Spec == Init /\ [][Next]_vars

\* the program as main.py drives it: process_historical_data only
NextPipeline ==
  \/ Construct \/ ConstructFails \/ Exit \/ Crash \/ CrashInSave
  \/ UpstreamChange
  \/ RunNoReviews \/ RunNothingToDo \/ RunBegin \/ FetchDay \/ Summarize
  \/ StoreCommit \/ StoreFails \/ Mark
  \/ SaveOK \/ SaveFailsOnOpen \/ SaveFailsOnWrite
  \/ ReturnToLoop

SpecPipeline == Init /\ [][NextPipeline]_vars

\* process_historical_data with interruptions but no I/O error
NextInterrupt ==
  \/ Construct \/ ConstructFails \/ Exit \/ Crash \/ CrashInSave
  \/ UpstreamChange
  \/ RunNoReviews \/ RunNothingToDo \/ RunBegin \/ FetchDay \/ Summarize
  \/ StoreCommit \/ Mark \/ SaveOK \/ ReturnToLoop

SpecInterrupt == Init /\ [][NextInterrupt]_vars

\* runs, direct calls and I/O failures in processes that are never killed
NextNoCrash ==
  \/ Construct \/ ConstructFails \/ Exit \/ UpstreamChange
  \/ RunNoReviews \/ RunNothingToDo \/ RunBegin \/ FetchDay \/ Summarize
  \/ DirectCall \/ StoreCommit \/ StoreFails \/ Mark
  \/ SaveOK \/ SaveFailsOnOpen \/ SaveFailsOnWrite
  \/ ReturnToLoop \/ ReturnToCaller

SpecNoCrash == Init /\ [][NextNoCrash]_vars

\* process_historical_data with neither I/O errors nor interruptions
NextNoFault ==
  \/ Construct \/ Exit \/ UpstreamChange
  \/ RunNoReviews \/ RunNothingToDo \/ RunBegin \/ FetchDay \/ Summarize
  \/ StoreCommit \/ Mark \/ SaveOK \/ ReturnToLoop

SpecNoFault == Init /\ [][NextNoFault]_vars

\* process_historical_data run any number of times, in one process or in
\* several, with store failures and nothing else going wrong
NextRuns ==
  \/ Construct \/ Exit \/ UpstreamChange
  \/ RunNoReviews \/ RunNothingToDo \/ RunBegin \/ FetchDay \/ Summarize
  \/ StoreCommit \/ StoreFails \/ Mark \/ SaveOK \/ ReturnToLoop

SpecRuns == Init /\ [][NextRuns]_vars

\* ------------------------------------------- the partitioner on any frame
PartDates == {Today - 1, Today}

\* frames of up to MaxLen distinct reviews with any dates, in any order
Frames ==
  UNION {{[k \in 1..n |->
             [reviewId |-> IF rev THEN n + 1 - k ELSE k, date |-> ds[k]]] :
            ds \in [1..n -> PartDates], rev \in BOOLEAN} : n \in 1..MaxLen}

InitPartition ==
  /\ feed = <<>>
  /\ hash_seed = 0
  /\ ScraperStart
  /\ conn = NoConn
  /\ TopicStart
  /\ days_range = 1
  /\ reviews_per_day \in 0..MaxQuota
  /\ status_file = AbsentFile
  /\ raw_reviews = <<>>
  /\ batch_processing = <<>>
  /\ pc = "split"
  /\ processing_status = EmptyStatus
  /\ caller = "none"
  /\ all_reviews_df \in Frames
  /\ daily_batches = NoBatches
  /\ unprocessed_dates = <<>>
  /\ i = 0
  /\ success_count = 0
  /\ failed_dates = <<>>
  /\ result = NoResult
  /\ target_date = NoDate
  /\ daily_reviews = <<>>
  /\ success = FALSE
  /\ exc = "none"

\* process_historical_data, lines 108-125, on the frame it was handed
SplitFrame ==
  /\ pc = "split"
  /\ daily_batches' = split_into_daily_batches(all_reviews_df, reviews_per_day)
  /\ unprocessed_dates' =
       get_unprocessed_dates(processing_status,
         split_into_daily_batches(all_reviews_df, reviews_per_day).keys)
  /\ success_count' = 0
  /\ failed_dates' = <<>>
  /\ i' = 1
  /\ pc' = "loop"
  /\ UNCHANGED <<feed, conn, topicvars, hash_seed, scrapevars, args,
                 durable, processing_status, caller,
                 all_reviews_df, result, dayvars>>

NextPartition ==
  \/ SplitFrame \/ FetchDay \/ StoreCommit \/ Mark \/ SaveOK
  \/ ReturnToLoop \/ Summarize

SpecPartition == InitPartition /\ [][NextPartition]_vars

\* ------------------------------------ the record store under any batches
InitStore ==
  /\ feed = <<>>
  /\ hash_seed = 0
  /\ ScraperStart
  /\ conn = NoConn
  /\ TopicStart
  /\ days_range = 1
  /\ reviews_per_day = 1
  /\ status_file = AbsentFile
  /\ raw_reviews = <<>>
  /\ batch_processing = <<>>
  /\ pc = "idle"
  /\ processing_status = EmptyStatus
  /\ FreshLocals

\* process_single_day_batch called with any frame under any date
DirectCallAnyFrame ==
  /\ pc = "idle"
  /\ processing_status.total_batches_processed < MaxBatches
  /\ \E d \in PartDates : \E frame \in Frames :
       /\ target_date' = d
       /\ daily_reviews' = frame
       /\ pc' = EntryPc(frame)
  /\ caller' = "direct"
  /\ success' = FALSE
  /\ exc' = "none"
  /\ UNCHANGED <<feed, conn, topicvars, hash_seed, scrapevars, args,
                 durable, processing_status, runvars,
                 result>>

NextStore ==
  \/ DirectCallAnyFrame \/ StoreCommit \/ StoreFails \/ Mark \/ SaveOK
  \/ ReturnToCaller

SpecStore == InitStore /\ [][NextStore]_vars

\* ------------------------------ reviews that come without an identifier
AnonReview(c) == [content |-> c, date |-> DateOf(c)]
RECURSIVE AnonFeedOf(_)
AnonFeedOf(n) ==
  IF n = 0 THEN <<>> ELSE <<AnonReview(n)>> \o AnonFeedOf(n - 1)
AnonFeeds == {AnonFeedOf(n) : n \in 1..MaxIds}
Seeds == 0..MaxSeed

InitSynth ==
  /\ feed \in AnonFeeds
  /\ hash_seed = 0
  /\ ScraperStart
  /\ conn = NoConn
  /\ TopicStart
  /\ days_range = MaxDaysRange
  /\ reviews_per_day \in 1..MaxQuota
  /\ status_file = AbsentFile
  /\ raw_reviews = <<>>
  /\ batch_processing = <<>>
  /\ pc = "nil"
  /\ processing_status = EmptyStatus
  /\ FreshLocals

\* a new interpreter starts, with the salt it draws for its str hashes
\* unless PYTHONHASHSEED pins it, and constructs the processor
ConstructSeeded ==
  /\ pc = "nil"
  /\ status_file.kind # "corrupt"
  /\ hash_seed' \in Seeds
  /\ processing_status' =
       IF status_file.kind = "json" THEN status_file.data ELSE EmptyStatus
  /\ pc' = "idle"
  /\ UNCHANGED <<feed, conn, topicvars, scrapevars, args, durable, caller, runvars, result,
                 dayvars>>

NextSynth ==
  \/ ConstructSeeded \/ Exit \/ Crash
  \/ RunNothingToDo \/ RunBegin \/ FetchDay \/ Summarize
  \/ StoreCommit \/ Mark \/ SaveOK \/ ReturnToLoop

SpecSynth == InitSynth /\ [][NextSynth]_vars

\* ------------------------------------ the fetch loop, one step at a time
\* dates a served review can carry: the widest window and the day before it
ScrapeDates == (Today - MaxDaysRange - 1)..Today

\* feeds of up to MaxLen distinct reviews with any dates, in any order
ScrapeFeeds ==
  UNION {{[k \in 1..n |-> [reviewId |-> k, date |-> ds[k]]] :
            ds \in [1..n -> ScrapeDates]} : n \in 0..MaxLen}

InitScrape ==
  /\ feed \in ScrapeFeeds
  /\ hash_seed = 0
  /\ ScraperStart
  /\ conn = NoConn
  /\ TopicStart
  /\ days_range \in 1..MaxDaysRange
  /\ reviews_per_day \in 1..MaxQuota
  /\ status_file = AbsentFile
  /\ raw_reviews = <<>>
  /\ batch_processing = <<>>
  /\ pc = "while"
  /\ processing_status = EmptyStatus
  /\ FreshLocals

\* line 36: the test of the while loop
WhileTest ==
  /\ pc = "while"
  /\ pc' = IF Card(DOMAIN daily_review_counts) < days_range
           THEN "request" ELSE "df"
  /\ UNCHANGED <<feed, conn, topicvars, hash_seed, scrapevars, args,
                 durable, processing_status, caller,
                 runvars, result, dayvars>>

\* the page a token stands for; None asks for the first page
PageIndex(token) == IF token = NoToken THEN 1 ELSE token

\* lines 37-44: reviews() answers with a page and a token, None with the
\* last page
RequestPage ==
  /\ pc = "request"
  /\ batch' = FeedPage(feed, PageIndex(continuation_token))
  /\ continuation_token' = NextToken(feed, PageIndex(continuation_token))
  /\ cursor' = 0
  /\ pc' = "got"
  /\ UNCHANGED <<feed, conn, topicvars, hash_seed, all_reviews, daily_review_counts, args, durable,
                 processing_status, caller, runvars, result, dayvars>>

\* lines 37-44: reviews() answers with an empty page although the feed has
\* more; the token is handed back as it was
RequestEmpty ==
  /\ pc = "request"
  /\ FeedPage(feed, PageIndex(continuation_token)) # <<>>
  /\ batch' = <<>>
  /\ cursor' = 0
  /\ pc' = "got"
  /\ UNCHANGED <<feed, conn, topicvars, hash_seed, continuation_token, all_reviews, daily_review_counts,
                 args, durable, processing_status, caller, runvars, result,
                 dayvars>>

\* lines 37-44: reviews() raises; nothing in scrape_historical_reviews or
\* process_historical_data catches it and main.py, lines 60-62, raises it
\* again. The locals are shown as they were when the frames were unwound.
RequestRaises ==
  /\ pc = "request"
  /\ pc' = "raised"
  /\ UNCHANGED <<feed, conn, topicvars, hash_seed, scrapevars, args,
                 durable, processing_status, caller,
                 runvars, result, dayvars>>

\* lines 46-51: an empty page ends the loop, any other enters the for loop
GotPage ==
  /\ pc = "got"
  /\ pc' = IF batch = <<>> THEN "df" ELSE "for"
  /\ UNCHANGED <<feed, conn, topicvars, hash_seed, scrapevars, args,
                 durable, processing_status, caller,
                 runvars, result, dayvars>>

\* AcceptReview with the quota test passing one review too many
AcceptReviewOverQuota ==
  /\ pc = "for"
  /\ cursor < Len(batch)
  /\ all_reviews' =
       AcceptPage(<<batch[cursor + 1]>>, all_reviews, daily_review_counts,
                  days_range, reviews_per_day + 1).all_reviews
  /\ daily_review_counts' =
       AcceptPage(<<batch[cursor + 1]>>, all_reviews, daily_review_counts,
                  days_range, reviews_per_day + 1).counts
  /\ cursor' = cursor + 1
  /\ UNCHANGED <<feed, conn, topicvars, hash_seed, continuation_token, batch, args, durable, pc,
                 processing_status, caller, runvars, result, dayvars>>

\* lines 51-63: one pass of the for loop
AcceptReview ==
  /\ pc = "for"
  /\ cursor < Len(batch)
  /\ all_reviews' =
       AcceptPage(<<batch[cursor + 1]>>, all_reviews, daily_review_counts,
                  days_range, reviews_per_day).all_reviews
  /\ daily_review_counts' =
       AcceptPage(<<batch[cursor + 1]>>, all_reviews, daily_review_counts,
                  days_range, reviews_per_day).counts
  /\ cursor' = cursor + 1
  /\ UNCHANGED <<feed, conn, topicvars, hash_seed, continuation_token, batch, args, durable, pc,
                 processing_status, caller, runvars, result, dayvars>>

\* line 68
DaysWithEnoughReviews ==
  Card({d \in DOMAIN daily_review_counts :
          daily_review_counts[d] >= reviews_per_day})

\* CheckStop without the test of the continuation token
CheckStopIgnoresToken ==
  /\ pc = "for"
  /\ cursor = Len(batch)
  /\ pc' = IF DaysWithEnoughReviews >= days_range THEN "df" ELSE "while"
  /\ UNCHANGED <<feed, conn, topicvars, hash_seed, scrapevars, args, durable,
                 processing_status, caller, runvars, result, dayvars>>

\* lines 68-73: the stop test behind the for loop
CheckStop ==
  /\ pc = "for"
  /\ cursor = Len(batch)
  /\ pc' = IF DaysWithEnoughReviews >= days_range
              \/ continuation_token = NoToken
           THEN "df" ELSE "while"
  /\ UNCHANGED <<feed, conn, topicvars, hash_seed, scrapevars, args,
                 durable, processing_status, caller,
                 runvars, result, dayvars>>

\* lines 76-95 and process_historical_data, lines 101-105: the sorted frame
\* is returned; an empty one ends the run as failed
ScrapeReturn ==
  /\ pc = "df"
  /\ all_reviews_df' = SortNewestFirst(all_reviews)
  /\ result' = IF all_reviews = <<>>
               THEN [status |-> "failed", error |-> "No reviews collected"]
               ELSE result
  /\ pc' = IF all_reviews = <<>> THEN "idle" ELSE "split"
  /\ UNCHANGED <<feed, conn, topicvars, hash_seed, scrapevars, args,
                 durable, processing_status, caller,
                 daily_batches, unprocessed_dates, i, success_count,
                 failed_dates, dayvars>>

NextScrape ==
  \/ WhileTest \/ RequestPage \/ RequestEmpty \/ RequestRaises \/ GotPage
  \/ AcceptReview \/ CheckStop \/ ScrapeReturn
  \/ SplitFrame \/ FetchDay \/ StoreCommit \/ Mark \/ SaveOK
  \/ ReturnToLoop \/ Summarize

SpecScrape == InitScrape /\ [][NextScrape]_vars

\* the fetch alone, with zero among its arguments, up to its return
InitFetch ==
  /\ feed \in ScrapeFeeds
  /\ hash_seed = 0
  /\ ScraperStart
  /\ conn = NoConn
  /\ TopicStart
  /\ days_range \in 0..MaxDaysRange
  /\ reviews_per_day \in 0..MaxQuota
  /\ status_file = AbsentFile
  /\ raw_reviews = <<>>
  /\ batch_processing = <<>>
  /\ pc = "while"
  /\ processing_status = EmptyStatus
  /\ FreshLocals

NextFetch ==
  \/ WhileTest \/ RequestPage \/ RequestEmpty \/ RequestRaises \/ GotPage
  \/ AcceptReview \/ CheckStop \/ ScrapeReturn

\* the interpreter keeps executing the fetch
SpecFetch == InitFetch /\ [][NextFetch]_vars /\ WF_vars(NextFetch)

\* ------------------------------------------- the canonical topic registry
Topics == 1..MaxTopics
None == 0
\* tenths: the code compares 1 - distance with 0.8
Scale == 10
similarity_threshold == 8
\* distances the index can report for two different strings: similarity
\* above the threshold, exactly at it, and twice below it
Distances == {1, 2, 5, 6}
Pairs == {p \in Topics \X Topics : p[1] < p[2]}
\* no string is at the same distance from two others
DistanceTables ==
  {d \in [Pairs -> Distances] :
     \A p \in Pairs : \A q \in Pairs :
       (p # q /\ {p[1], p[2]} \cap {q[1], q[2]} # {}) => d[p] # d[q]}

\* results['distances'][0][k] for the query string and a stored document;
\* the same string has the same embedding
Distance(a, b) ==
  IF a = b THEN 0
  ELSE IF a < b THEN distance[<<a, b>>] ELSE distance[<<b, a>>]

\* line 51
similarity(a, b) == Scale - Distance(a, b)

Documents(coll) == {e.document : e \in coll}

\* collection.query(n_results=1): the stored document no other stored
\* document is nearer than, none when nothing is stored
query(coll, query_topic) ==
  {doc \in Documents(coll) :
     \A other \in Documents(coll) :
       Distance(query_topic, doc) <= Distance(query_topic, other)}

\* top_k = 1: the one result, kept when its similarity reaches the threshold
find_similar_topics(coll, query_topic, threshold) ==
  {IF similarity(query_topic, doc) >= threshold
   THEN <<[topic |-> doc, similarity |-> similarity(query_topic, doc)]>>
   ELSE <<>> : doc \in query(coll, query_topic)}

\* the values get_canonical_topic can return; an empty collection has
\* nothing to return
get_canonical_topic_any_distance(coll, topic, threshold) ==
  IF coll = {} THEN {None} ELSE query(coll, topic)

get_canonical_topic(coll, topic, threshold) ==
  IF coll = {} THEN {None}
  ELSE {IF similar # <<>> THEN similar[1].topic ELSE None :
          similar \in find_similar_topics(coll, topic, threshold)}

\* f"topic_{hash(topic)}" under the salt of the running interpreter
TopicId(topic) == topic + hash_seed * MaxTopics

\* collection.add of one document; an id the collection already holds is
\* left as it is
add_topics_replacing(coll, topic) ==
  {[id |-> TopicId(topic), document |-> topic]}

add_topics(coll, topic) ==
  coll \cup {[id |-> TopicId(topic), document |-> topic]}

TopicRecords == {[topic_name |-> t] : t \in Topics}

InitConsolidate ==
  /\ feed = <<>>
  /\ hash_seed = 0
  /\ ScraperStart
  /\ conn = NoConn
  /\ days_range = 1
  /\ reviews_per_day = 1
  /\ status_file = AbsentFile
  /\ raw_reviews = <<>>
  /\ batch_processing = <<>>
  /\ pc = "idle"
  /\ processing_status = EmptyStatus
  /\ FreshLocals
  /\ collection = {}
  /\ distance \in DistanceTables
  /\ raw_topics = <<>>
  /\ consolidated_topics = <<>>
  /\ reviews_df = <<>>
  /\ all_topics = <<>>
  /\ llm_log = <<>>

\* lines 13-20; the list the caller passes is read one element at a time,
\* and raw_topics holds the part of it the loop has reached
ConsolidateCall ==
  /\ pc = "idle"
  /\ raw_topics' = <<>>
  /\ consolidated_topics' = <<>>
  /\ pc' = "consolidating"
  /\ UNCHANGED <<feed, conn, hash_seed, scrapevars, collection, distance,
                 reviews_df, all_topics, llm_log, args, durable,
                 processing_status, caller, runvars, result, dayvars>>

\* lines 22-37, one pass of the loop
ConsolidateStepAlwaysRegisters ==
  /\ pc = "consolidating"
  /\ Len(raw_topics) < MaxLen
  /\ \E topic \in TopicRecords :
     LET topic_name == topic.topic_name
     IN  /\ raw_topics' = Append(raw_topics, topic)
         /\ \E canonical_topic \in
              get_canonical_topic(collection, topic_name,
                                  similarity_threshold) :
           /\ collection' = add_topics(collection, topic_name)
           /\ IF canonical_topic # None /\ canonical_topic # topic_name
              THEN consolidated_topics' =
                     Append(consolidated_topics,
                            [topic_name |-> canonical_topic,
                             original_topic |-> topic_name])
              ELSE consolidated_topics' = Append(consolidated_topics, topic)
  /\ UNCHANGED <<feed, conn, hash_seed, scrapevars, distance,
                 reviews_df, all_topics, llm_log, args, durable, pc,
                 processing_status, caller, runvars, result, dayvars>>

ConsolidateStep ==
  /\ pc = "consolidating"
  /\ Len(raw_topics) < MaxLen
  /\ \E topic \in TopicRecords :
     LET topic_name == topic.topic_name
     IN  /\ raw_topics' = Append(raw_topics, topic)
         /\ \E canonical_topic \in
              get_canonical_topic(collection, topic_name,
                                  similarity_threshold) :
           IF canonical_topic # None /\ canonical_topic # topic_name
           THEN /\ consolidated_topics' =
                     Append(consolidated_topics,
                            [topic_name |-> canonical_topic,
                             original_topic |-> topic_name])
                /\ UNCHANGED collection
           ELSE /\ collection' = add_topics(collection, topic_name)
                /\ consolidated_topics' = Append(consolidated_topics, topic)
  /\ UNCHANGED <<feed, conn, hash_seed, scrapevars, distance,
                 reviews_df, all_topics, llm_log, args, durable, pc,
                 processing_status, caller, runvars, result, dayvars>>

\* lines 39-40 (and line 16 for an empty list): the list has no more
ConsolidateReturn ==
  /\ pc = "consolidating"
  /\ pc' = "idle"
  /\ UNCHANGED <<feed, conn, hash_seed, scrapevars, topicvars, args, durable,
                 processing_status, caller, runvars, result, dayvars>>

NextConsolidate ==
  \/ ConsolidateCall \/ ConsolidateStep \/ ConsolidateReturn

SpecConsolidate == InitConsolidate /\ [][NextConsolidate]_vars

\* ---------------------------------------------------- topic extraction
\* line 37 takes 5 reviews to a chunk; 2 here, so that the frames of the
\* model span more than one chunk
chunk_size == 2

\* a blank topic_name, and the names the oracle can give
Blank == 0
NameLists == UNION {[1..n -> {Blank} \cup Topics] : n \in 0..2}

\* what self.llm.generate returns. "json": a JSON object whose topics are
\* objects with these names. "misshapen": JSON whose topics list holds
\* these and then an entry that is no object. "truncated": braces around
\* text json.loads rejects. "prose": no braces at all. "failed": the
\* pipeline raised and generate returned "" (llm_client.py, lines 69-71).
LLMResponses ==
  {[kind |-> k, topics |-> ts] : k \in {"json", "misshapen"},
                                 ts \in NameLists}
    \cup {[kind |-> k, topics |-> <<>>] :
            k \in {"truncated", "prose", "failed"}}

\* lines 113-132: every named topic is applied to every review of the chunk
RECURSIVE topics_data(_, _)
topics_data(names, reviews_chunk) ==
  IF names = <<>> THEN <<>>
  ELSE (IF Head(names) = Blank THEN <<>>
        ELSE [r \in 1..Len(reviews_chunk) |->
                [review_id |-> reviews_chunk[r],
                 topic_name |-> Head(names)]])
       \o topics_data(Tail(names), reviews_chunk)

\* lines 103-138: no match returns [] at line 108; json.loads raising, or
\* topic.get raising on an entry that is no object, is caught at line 136
parse_llm_response_keeps_partial(llm_response, reviews_chunk) ==
  IF llm_response.kind \in {"json", "misshapen"}
  THEN topics_data(llm_response.topics, reviews_chunk)
  ELSE <<>>

parse_llm_response(llm_response, reviews_chunk) ==
  IF llm_response.kind = "json"
  THEN topics_data(llm_response.topics, reviews_chunk)
  ELSE <<>>

InitExtract ==
  /\ feed = <<>>
  /\ hash_seed = 0
  /\ ScraperStart
  /\ conn = NoConn
  /\ TopicStart
  /\ days_range = 1
  /\ reviews_per_day = 1
  /\ status_file = AbsentFile
  /\ raw_reviews = <<>>
  /\ batch_processing = <<>>
  /\ pc = "idle"
  /\ processing_status = EmptyStatus
  /\ FreshLocals

\* lines 27-37: an empty frame is answered at line 30
ExtractCall ==
  /\ pc = "idle"
  /\ \E n \in 0..MaxLen :
       /\ reviews_df' = [r \in 1..n |-> r]
       /\ pc' = IF n = 0 THEN "idle" ELSE "extracting"
  /\ all_topics' = <<>>
  /\ llm_log' = <<>>
  /\ i' = 0
  /\ UNCHANGED <<feed, conn, hash_seed, scrapevars, collection, distance,
                 raw_topics, consolidated_topics, args, durable,
                 processing_status, caller, all_reviews_df, daily_batches,
                 unprocessed_dates, success_count, failed_dates, result,
                 dayvars>>

\* lines 38-41 with _process_reviews_chunk, lines 46-57: one chunk is sent
\* to the oracle and what its answer yields is appended
ProcessChunk ==
  /\ pc = "extracting"
  /\ i < Len(reviews_df)
  /\ LET chunk == SubSeq(reviews_df, i + 1,
                         Min(i + chunk_size, Len(reviews_df)))
     IN  \E llm_response \in LLMResponses :
           /\ llm_log' = Append(llm_log, [chunk |-> chunk,
                                          response |-> llm_response])
           /\ all_topics' =
                all_topics \o parse_llm_response(llm_response, chunk)
  /\ i' = i + chunk_size
  /\ UNCHANGED <<feed, conn, hash_seed, scrapevars, collection, distance,
                 raw_topics, consolidated_topics, reviews_df, args, durable,
                 pc, processing_status, caller, all_reviews_df,
                 daily_batches, unprocessed_dates, success_count,
                 failed_dates, result, dayvars>>

\* lines 43-44
ExtractReturn ==
  /\ pc = "extracting"
  /\ i >= Len(reviews_df)
  /\ pc' = "idle"
  /\ UNCHANGED <<feed, conn, hash_seed, scrapevars, topicvars, args, durable,
                 processing_status, caller, runvars, result, dayvars>>

NextExtract == ExtractCall \/ ProcessChunk \/ ExtractReturn

SpecExtract == InitExtract /\ [][NextExtract]_vars

\* ------------------------------------------------- the second-stage pass
\* run_phase2, line 161: Phase2Processor(). DataStorage() finds its tables,
\* TopicVectorStore() finds or creates its collection, and
\* _setup_topic_tables calls self.storage._get_connection() at line 42.
\* DataStorage defines no _get_connection: the AttributeError is caught at
\* line 64 and raised again at line 66, and again at line 178, so that
\* process_all_batches at line 162 is not reached.
Phase2Processor ==
  /\ pc = "idle"
  /\ pc' = "phase2_failed"
  /\ UNCHANGED <<feed, conn, hash_seed, scrapevars, topicvars, args, durable,
                 processing_status, caller, runvars, result, dayvars>>

NextPhase2 ==
  \/ DirectCallAnyFrame \/ StoreCommit \/ StoreFails \/ Mark \/ SaveOK
  \/ ReturnToCaller \/ Phase2Processor

SpecPhase2 == InitStore /\ [][NextPhase2]_vars

\* --------------------------------- store_daily_batch, statement by statement
\* line 73: sqlite3.connect with the default isolation level. The module
\* opens a transaction before the first INSERT; what the statements write
\* is seen on this connection only until conn.commit().
StoreConnect ==
  /\ pc = "store"
  /\ conn' = [open |-> TRUE,
              raw_reviews |-> raw_reviews,
              batch_processing |-> batch_processing,
              done |-> 0,
              rowcount |-> 0]
  /\ pc' = "insert"
  /\ UNCHANGED <<feed, hash_seed, scrapevars, topicvars, args, durable,
                 processing_status, caller, runvars, result, dayvars>>

\* StoreInsertRow on a connection opened with isolation_level=None: the
\* row is durable as soon as it is inserted
StoreInsertRowAutocommit ==
  /\ pc = "insert"
  /\ conn.done < Len(daily_reviews)
  /\ LET r == Records(daily_reviews, target_date)[conn.done + 1]
         t2 == InsertOrIgnore(conn.raw_reviews, <<r>>)
     IN  /\ conn' = [conn EXCEPT
                       !.raw_reviews = t2,
                       !.done = @ + 1,
                       !.rowcount =
                         @ + Card(DOMAIN t2) - Card(DOMAIN conn.raw_reviews)]
         /\ raw_reviews' = t2
  /\ UNCHANGED <<feed, hash_seed, scrapevars, topicvars, args, status_file,
                 batch_processing, pc, processing_status, caller, runvars,
                 result, dayvars>>

\* lines 97-101: the executemany handles the next record
StoreInsertRow ==
  /\ pc = "insert"
  /\ conn.done < Len(daily_reviews)
  /\ LET r == Records(daily_reviews, target_date)[conn.done + 1]
         t2 == InsertOrIgnore(conn.raw_reviews, <<r>>)
     IN  conn' = [conn EXCEPT
                    !.raw_reviews = t2,
                    !.done = @ + 1,
                    !.rowcount =
                      @ + Card(DOMAIN t2) - Card(DOMAIN conn.raw_reviews)]
  /\ UNCHANGED <<feed, hash_seed, scrapevars, topicvars, args, durable, pc,
                 processing_status, caller, runvars, result, dayvars>>

\* lines 103-110: inserted_count = cursor.rowcount goes into the batch row
StoreUpsertBatch ==
  /\ pc = "insert"
  /\ conn.done = Len(daily_reviews)
  /\ conn' = [conn EXCEPT
                !.batch_processing =
                  InsertOrReplace(@, strftime(target_date), conn.rowcount)]
  /\ pc' = "commit"
  /\ UNCHANGED <<feed, hash_seed, scrapevars, topicvars, args, durable,
                 processing_status, caller, runvars, result, dayvars>>

\* lines 112-113: the one commit of the call
StoreCommitTxn ==
  /\ pc = "commit"
  /\ raw_reviews' = conn.raw_reviews
  /\ batch_processing' = conn.batch_processing
  /\ conn' = NoConn
  /\ pc' = "mark"
  /\ UNCHANGED <<feed, hash_seed, scrapevars, topicvars, args, status_file,
                 processing_status, caller, runvars, result, dayvars>>

\* lines 117-119: a statement or the commit raises. Nothing rolls back
\* explicitly; the connection is dropped with its transaction open, which
\* SQLite rolls back. process_single_day_batch catches at lines 70-72.
StoreRaises ==
  /\ pc \in {"insert", "commit"}
  /\ conn' = NoConn
  /\ exc' = "store"
  /\ success' = FALSE
  /\ pc' = "ret"
  /\ UNCHANGED <<feed, hash_seed, scrapevars, topicvars, args, durable,
                 processing_status, caller, runvars, result, target_date,
                 daily_reviews>>

\* the process is killed inside store_daily_batch: the journal rolls the
\* open transaction back when the database is opened next
CrashInStore ==
  /\ pc \in {"insert", "commit"}
  /\ conn' = NoConn
  /\ pc' = "nil"
  /\ processing_status' = EmptyStatus
  /\ ResetLocals
  /\ UNCHANGED <<feed, hash_seed, scrapevars, topicvars, args, durable>>

NextTxn ==
  \/ Construct \/ DirectCallAnyFrame
  \/ StoreConnect \/ StoreInsertRow \/ StoreUpsertBatch \/ StoreCommitTxn
  \/ StoreRaises \/ CrashInStore
  \/ Mark \/ SaveOK \/ ReturnToCaller

SpecTxn == InitStore /\ [][NextTxn]_vars

\* ------------------------------------------------------------- properties
StatsCount(status, s) ==
  IF s \in DOMAIN status.batch_stats THEN status.batch_stats[s].review_count
  ELSE 0
HasBatchRow(s) == s \in DOMAIN batch_processing
RowsWithDate(s) == {id \in StoredIds : raw_reviews[id].date = s}
FrameStored(frame) == \A k \in 1..Len(frame) : frame[k].reviewId \in StoredIds
Target == strftime(target_date)

\* every date recorded with a non-zero review count has its batch committed
NonEmptyMarkedAreCommitted ==
  /\ \A s \in MemDates : StatsCount(processing_status, s) > 0 => HasBatchRow(s)
  /\ \A s \in FileDates : StatsCount(status_file.data, s) > 0 => HasBatchRow(s)

\* C1: write before mark. While the store call of a day of the run has not
\* committed, the date is in the processed set neither in memory nor in the
\* status file; from the mark on, the rows and the batch row of a non-empty
\* day are committed; and no date is recorded as processed with a non-zero
\* review count without a committed batch.
C1_WriteBeforeMark ==
  /\ (pc = "store" /\ caller = "run") => Target \notin MemDates \cup FileDates
  /\ (daily_reviews # <<>> /\ (pc \in {"mark", "save"} \/ (pc = "ret" /\ exc # "store")))
       => (HasBatchRow(Target) /\ FrameStored(daily_reviews))
  /\ NonEmptyMarkedAreCommitted

\* a non-empty day of a run is marked in memory, its flush pending
C1_Witness ==
  /\ pc = "save" /\ caller = "run" /\ daily_reviews # <<>>
  /\ Target \in MemDates /\ Target \notin FileDates
  /\ HasBatchRow(Target)

\* C2: when store_daily_batch fails for a day of a run, the day returns
\* False and is listed in failed_dates, the date is not in the processed set
\* in memory or in the status file, the failing step changes neither the
\* status nor the file nor the tables, and get_unprocessed_dates over the
\* same available dates still yields the date.
C2_StoreFailureNotMarked ==
  /\ [](exc = "store" => ~success)
  /\ []((exc = "store" /\ caller = "run" /\ pc \in {"ret", "loop"}) =>
          /\ Target \notin MemDates \cup FileDates
          /\ target_date \in
               Range(get_unprocessed_dates(processing_status, daily_batches.keys)))
  /\ []((exc = "store" /\ caller = "run" /\ pc = "loop") =>
          target_date \in Range(failed_dates))
  /\ [][(pc = "store" /\ pc' = "ret") =>
          (exc' = "store" /\ UNCHANGED <<processing_status, durable>>)]_vars

\* a day of a run failed in the store call and was booked as failed
C2_Witness ==
  /\ pc = "loop" /\ caller = "run" /\ exc = "store"
  /\ target_date \in Range(failed_dates)
  /\ ~HasBatchRow(Target)

\* C3 as stated: a date is in the processed set if and only if a batch was
\* written for it; every processed date has a batch row, days handled as
\* empty included, and a date with a batch row is in the processed set once
\* its per-day step has finished.
C3_ProcessedIffWritten ==
  /\ \A s \in MemDates \cup FileDates : HasBatchRow(s)
  /\ (pc \in {"ret", "loop"} /\ target_date # NoDate /\ HasBatchRow(Target))
       => Target \in MemDates

\* C3 amended: a processed date has a batch row unless it was recorded with
\* review count zero (a day handled as empty), and when the store call of a
\* per-day step has committed, the date has a batch row and is in the
\* processed set in memory when the step finishes.
C3_ProcessedIffWrittenAmended ==
  /\ \A s \in MemDates :
       HasBatchRow(s) \/ StatsCount(processing_status, s) = 0
  /\ \A s \in FileDates :
       HasBatchRow(s) \/ StatsCount(status_file.data, s) = 0
  /\ (pc \in {"ret", "loop"} /\ target_date # NoDate /\ daily_reviews # <<>>
        /\ exc # "store")
       => (HasBatchRow(Target) /\ Target \in MemDates)

\* a day handled as empty is processed and durable without a batch row, and
\* a day whose store committed has finished
C3_Witness ==
  /\ \E s \in FileDates : ~HasBatchRow(s) /\ StatsCount(status_file.data, s) = 0
  /\ pc = "ret" /\ daily_reviews # <<>> /\ exc = "none"
  /\ Target \in MemDates

\* C4 as stated: every processed date has a batch_processing row whose
\* review_count is at least the review_count of the progress statistics.
C4_MetadataCountCoversStats ==
  /\ \A s \in MemDates :
       HasBatchRow(s) /\ batch_processing[s] >= StatsCount(processing_status, s)
  /\ \A s \in FileDates :
       HasBatchRow(s) /\ batch_processing[s] >= StatsCount(status_file.data, s)

\* C5: idempotence. After a completed run the same upstream data leaves
\* nothing to process: every available date is in the durable processed set
\* and filtered out, so a second run calls the per-day step for no date and
\* stores no row; and the status file
\* holds exactly the in-memory status, so the same is true of a second run
\* in a new process.
C5_SecondRunDoesNothing ==
  /\ (pc = "idle" /\ result.status = "completed") =>
       /\ Scraped # <<>>
       /\ Unprocessed = <<>>
       /\ \A d \in Range(Batches.keys) : strftime(d) \in FileDates
  /\ pc = "idle" =>
       \/ status_file = JsonFile(processing_status)
       \/ status_file = AbsentFile /\ processing_status = EmptyStatus

\* a second run over stored data returned with nothing to do
C5_Witness ==
  /\ pc = "idle"
  /\ result = [status |-> "completed", processed |-> 0]
  /\ StoredIds # {}
  /\ Card(FileDates) >= 2

\* C6 as stated, in the form a finite run refutes: after an interruption the
\* status file holds only dates whose batch is committed and a re-invocation
\* can load it and resume.
C6_InterruptLeavesResumableState ==
  /\ \A s \in FileDates : HasBatchRow(s)
  /\ pc = "nil" => status_file.kind # "corrupt"
  /\ pc # "load_failed"

\* C7 as stated: a process that ends at any point leaves every durable
\* marker in the file, and the next process loads all of them.
C7_CrashKeepsDurableMarkers ==
  /\ [][(pc # "nil" /\ pc' = "nil") => FileDates \subseteq FileDates']_vars
  /\ [][(pc = "nil" /\ pc' = "idle") => FileDates \subseteq MemDates']_vars

\* C8 as stated: the processed set only grows and holds no date twice, in
\* the file across all steps and in memory while a process lives.
NoDuplicates(seq) == \A k, m \in 1..Len(seq) : seq[k] = seq[m] => k = m
C8_ProcessedSetOnlyGrows ==
  /\ [](NoDuplicates(processing_status.processed_dates)
        /\ NoDuplicates(status_file.data.processed_dates))
  /\ [][FileDates \subseteq FileDates']_vars
  /\ [][(pc \notin {"nil", "load_failed"} /\ pc' \notin {"nil", "load_failed"})
          => MemDates \subseteq MemDates']_vars

\* C9 as stated: for every date the record store holds at most
\* reviews_per_day rows with that date.
C9_StoredQuota ==
  \A d \in Dates : Card(RowsWithDate(strftime(d))) <= reviews_per_day

\* C10: the partitioner and the day that follows. The keys are the dates of
\* the frame; the batch of a date holds, in the order of the frame, the
\* first min(quota, size of the group) records of that date and no other;
\* once such a day is processed, the statistics record that many reviews and
\* that many rows of the date are stored.
CountOfDate(df, d) == Card({p \in 1..Len(df) : df[p].date = d})
\* the position in df of the k-th record dated d
KthOfDate(df, d, k) ==
  CHOOSE p \in 1..Len(df) :
    df[p].date = d /\ Card({j \in 1..(p - 1) : df[j].date = d}) = k - 1
Kept(df, d) == Min(reviews_per_day, CountOfDate(df, d))
C10_PartitionAndQuota ==
  pc \in {"loop", "store", "mark", "save", "ret"} =>
    /\ Range(daily_batches.keys) = {all_reviews_df[p].date : p \in 1..Len(all_reviews_df)}
    /\ NoDuplicates(daily_batches.keys)
    /\ \A d \in Range(daily_batches.keys) :
         /\ Len(daily_batches.batch[d]) = Kept(all_reviews_df, d)
         /\ \A k \in 1..Len(daily_batches.batch[d]) :
              daily_batches.batch[d][k] =
                all_reviews_df[KthOfDate(all_reviews_df, d, k)]
         /\ strftime(d) \in FileDates =>
              /\ StatsCount(status_file.data, strftime(d)) = Kept(all_reviews_df, d)
              /\ Card(RowsWithDate(strftime(d))) = Kept(all_reviews_df, d)

\* three reviews of one date with quota two: two rows stored, two recorded
C10_Witness ==
  /\ pc = "loop"
  /\ reviews_per_day = 2
  /\ \E d \in Range(daily_batches.keys) :
       /\ CountOfDate(all_reviews_df, d) = 3
       /\ strftime(d) \in FileDates
       /\ Card(RowsWithDate(strftime(d))) = 2
       /\ StatsCount(status_file.data, strftime(d)) = 2

\* C11: get_unprocessed_dates. When a run computes the unprocessed dates
\* they are exactly the available dates that are not members of the
\* processed set, each once and in the order of the available dates; a run
\* that reports nothing to do has every available date in the processed set.
\* A date marked processed as an empty day counts as processed.
PosIn(seq, x) == CHOOSE k \in 1..Len(seq) : seq[k] = x
C11_UnprocessedIsSetDifference ==
  /\ [][(pc = "idle" /\ pc' = "loop") =>
          /\ Range(unprocessed_dates') =
               {d \in Range(daily_batches'.keys) : strftime(d) \notin MemDates}
          /\ NoDuplicates(unprocessed_dates')
          /\ \A k, m \in 1..Len(unprocessed_dates') :
               k < m => PosIn(daily_batches'.keys, unprocessed_dates'[k])
                          < PosIn(daily_batches'.keys, unprocessed_dates'[m])]_vars
  /\ [][(pc = "idle" /\ pc' = "idle" /\ result' # result
           /\ result'.status = "completed") =>
          \A d \in Range(Batches.keys) : strftime(d) \in MemDates]_vars

\* a run found a date processed as an empty day, with nothing stored for
\* it, and left it out although an older date is still to be processed
C11_Witness ==
  /\ pc = "loop"
  /\ i = 1
  /\ \E d \in Range(daily_batches.keys) :
       /\ strftime(d) \in MemDates
       /\ StatsCount(processing_status, strftime(d)) = 0
       /\ RowsWithDate(strftime(d)) = {}
       /\ d \notin Range(unprocessed_dates)
       /\ \E d2 \in Range(unprocessed_dates) : d2 < d

\* C12: a status file that cannot be loaded. While the file is corrupt no
\* process gets past the construction of the batch processor: the only step
\* a starting process takes is the failing load, which leaves the record
\* store, the status file and every local untouched, and after it the
\* process takes no step at all, so nothing is fetched, stored or marked.
C12_CorruptStatusFailsFast ==
  /\ [][(pc = "nil" /\ status_file.kind = "corrupt") =>
          /\ pc' \in {"nil", "load_failed"}
          /\ UNCHANGED <<durable, processing_status, caller, runvars, result,
                         dayvars>>]_vars
  /\ [][pc = "load_failed" => UNCHANGED vars]_vars

\* the load failed in a process started over a record store that holds
\* reviews of an earlier run
C12_Witness ==
  /\ pc = "load_failed"
  /\ status_file.kind = "corrupt"
  /\ StoredIds # {}

\* C13: per-date isolation. In a run whose days may fail (the store call or
\* the status flush raises) the loop walks the unprocessed dates one by one:
\* the day in progress is the i-th unprocessed date, the days before it are
\* each booked once as a success or a failure, a day that returns, failed or
\* not, is followed by the next date, and the loop is left only behind the
\* last unprocessed date.
InRun == pc = "loop" \/ (pc \in {"store", "mark", "save", "ret"} /\ caller = "run")
C13_PerDateIsolation ==
  /\ [](InRun =>
          /\ NoDuplicates(unprocessed_dates)
          /\ i \in 1..(Len(unprocessed_dates) + 1)
          /\ success_count + Len(failed_dates) = i - 1
          /\ Range(failed_dates) \subseteq
               {unprocessed_dates[k] : k \in 1..(i - 1)}
          /\ pc # "loop" =>
               (i <= Len(unprocessed_dates) /\ target_date = unprocessed_dates[i]))
  /\ [][(pc = "ret" /\ caller = "run") =>
          (pc' = "loop" /\ i' = i + 1 /\ UNCHANGED unprocessed_dates)]_vars
  /\ [][(pc = "loop" /\ pc' # "loop") =>
          IF i <= Len(unprocessed_dates)
          THEN pc' \in {"store", "mark"} /\ target_date' = unprocessed_dates[i]
          ELSE pc' = "idle"]_vars

\* the first of two unprocessed dates failed and the second was processed
\* and flushed all the same
C13_Witness ==
  /\ pc = "loop"
  /\ Len(unprocessed_dates) = 2
  /\ i = 3
  /\ failed_dates = <<unprocessed_dates[1]>>
  /\ success_count = 1
  /\ strftime(unprocessed_dates[2]) \in FileDates

\* C14: the run summary. The summary returned behind the loop reports as
\* attempted the number of dates that were unprocessed when the run began,
\* as failed the length of failed_dates, and attempted = successful +
\* failed; failed_dates holds exactly the dates whose per-day step returned
\* False, which are those in which an exception was raised.
C14_RunSummary ==
  /\ [](pc = "ret" => (success <=> exc = "none"))
  /\ [][(pc = "idle" /\ pc' = "loop") =>
          /\ unprocessed_dates' = Unprocessed
          /\ failed_dates' = <<>>
          /\ success_count' = 0]_vars
  /\ [][(InRun /\ InRun') => UNCHANGED unprocessed_dates]_vars
  /\ [][(pc = "ret" /\ pc' = "loop") =>
          /\ failed_dates' = IF exc = "none" THEN failed_dates
                             ELSE Append(failed_dates, target_date)
          /\ success_count' = IF exc = "none" THEN success_count + 1
                              ELSE success_count]_vars
  /\ [][(pc = "loop" /\ pc' = "idle") =>
          /\ result'.status = "completed"
          /\ result'.total_attempted = Len(unprocessed_dates)
          /\ result'.total_attempted = result'.successful + result'.failed
          /\ result'.failed = Len(result'.failed_dates)
          /\ result'.failed_dates = failed_dates
          /\ result'.successful = success_count]_vars

\* a summary of two attempted dates, one failed and one successful
C14_Witness ==
  /\ pc = "idle"
  /\ result.status = "completed"
  /\ "failed_dates" \in DOMAIN result
  /\ result.total_attempted = 2
  /\ result.successful = 1
  /\ Len(result.failed_dates) = 1

\* C15: quota counting in the fetch loop. At every point of the fetch, for
\* every date, the accepted reviews of that date are as many as the date's
\* counter says and at most reviews_per_day, and so are those of the
\* returned frame; a pass of the for loop appends the review exactly when
\* its date passes the window test of line 55 and the date's counter is
\* below reviews_per_day, and nothing else changes the accepted reviews.
start_date == Today - days_range
InWindow(d) == start_date <= d /\ d <= Today
Counter(d) ==
  IF d \in DOMAIN daily_review_counts THEN daily_review_counts[d] ELSE 0
C15_QuotaCounting ==
  /\ [](\A d \in ScrapeDates :
          /\ CountOfDate(all_reviews, d) = Counter(d)
          /\ Counter(d) <= reviews_per_day
          /\ CountOfDate(all_reviews_df, d) <= reviews_per_day)
  /\ [][(pc = "for" /\ cursor' = cursor + 1) =>
          IF InWindow(batch[cursor + 1].date)
             /\ Counter(batch[cursor + 1].date) < reviews_per_day
          THEN all_reviews' = Append(all_reviews, batch[cursor + 1])
          ELSE all_reviews' = all_reviews]_vars
  /\ [][all_reviews' # all_reviews => (pc = "for" /\ cursor' = cursor + 1)]_vars

\* on the second page a review inside the window was discarded because its
\* date had reached the quota with reviews of the first page
C15_Witness ==
  /\ pc = "for"
  /\ cursor >= 1
  /\ batch[cursor].reviewId > PageSize
  /\ InWindow(batch[cursor].date)
  /\ batch[cursor] \notin Range(all_reviews)
  /\ Counter(batch[cursor].date) = reviews_per_day

\* C16 as stated: every accepted review is dated within the days_range days
\* that end today, today included, so the accepted reviews carry at most
\* days_range distinct dates and none before today - (days_range - 1).
C16_TrailingWindow ==
  /\ \A k \in 1..Len(all_reviews) :
       /\ Today - (days_range - 1) <= all_reviews[k].date
       /\ all_reviews[k].date <= Today
  /\ Card({all_reviews[k].date : k \in 1..Len(all_reviews)}) <= days_range

\* C17 as stated: the fetch loop is left only on an empty page, on a page
\* that came without a continuation token, or when at least days_range dates
\* have reached reviews_per_day; otherwise another page is requested.
StopAllowed ==
  \/ batch = <<>>
  \/ continuation_token = NoToken
  \/ DaysWithEnoughReviews >= days_range
C17_StopConditions ==
  /\ [][(pc \in {"while", "got", "for"} /\ pc' = "df") => StopAllowed]_vars
  /\ [][(pc = "for" /\ cursor = Len(batch) /\ ~StopAllowed) =>
          pc' = "while"]_vars
  /\ [][(pc = "while" /\ ~StopAllowed) => pc' = "request"]_vars

\* C18: an empty first page. When the first page of the feed is empty the
\* fetch returns an empty frame, and the run that follows returns the failed
\* status at once: the processor stays idle and the in-memory progress, the
\* status file and the record store are as they were.
C18_EmptyFirstPage ==
  /\ [](FeedPage(feed, 1) = <<>> => Scraped = <<>>)
  /\ [][(pc = "idle" /\ FeedPage(feed, 1) = <<>> /\ result' # result
           /\ result'.status # "none") =>
          /\ result' = [status |-> "failed", error |-> "No reviews collected"]
          /\ pc' = "idle"
          /\ UNCHANGED <<processing_status, durable>>]_vars

\* a run over an empty feed returned failed in a processor whose status
\* file already names a processed date
C18_Witness ==
  /\ pc = "idle"
  /\ FeedPage(feed, 1) = <<>>
  /\ result.status = "failed"
  /\ FileDates # {}
  /\ MemDates = FileDates

\* C19 as stated: a page request that fails, by an empty page out of turn
\* or by an exception of the feed call, ends the fetch loop like an
\* exhausted feed: no exception leaves the fetch, the reviews accepted from
\* the earlier pages are the frame that is partitioned and stored, and the
\* status file stays loadable.
C19_TransientFailureIsExhaustion ==
  /\ pc # "raised"
  /\ pc \in {"split", "loop", "store", "mark", "save", "ret"} =>
       all_reviews_df = SortNewestFirst(all_reviews)
  /\ status_file.kind # "corrupt"

\* C20: insert-or-ignore. The commit of a store call is possible whatever
\* is stored; it leaves every row that was stored as it was, content date,
\* app_id and batch_date included, adds one row with the batch's content for
\* each identifier of the batch that was not stored, so that the stored
\* identifiers grow by exactly those of the batch; and no other step touches
\* the table, which makes the stored identifiers the union of those passed
\* to the committed calls.
FrameIds(df) == {df[k].reviewId : k \in 1..Len(df)}
C20_InsertOrIgnore ==
  /\ [](pc = "store" => ENABLED StoreCommit)
  /\ [][(pc = "store" /\ pc' = "mark") =>
          /\ DOMAIN raw_reviews' = StoredIds \cup FrameIds(daily_reviews)
          /\ \A id \in StoredIds : raw_reviews'[id] = raw_reviews[id]
          /\ \A k \in 1..Len(daily_reviews) :
               daily_reviews[k].reviewId \notin StoredIds =>
                 raw_reviews'[daily_reviews[k].reviewId] =
                   [date |-> strftime(daily_reviews[k].date),
                    app_id |-> APP_ID,
                    batch_date |-> Target]]_vars
  /\ [][~(pc = "store" /\ pc' = "mark") => raw_reviews' = raw_reviews]_vars

\* a batch was committed that held a stored identifier with another date and
\* under another batch date, next to an identifier that was new
C20_Witness ==
  /\ pc = "mark"
  /\ \E k, m \in 1..Len(daily_reviews) :
       /\ raw_reviews[daily_reviews[k].reviewId].date
            # strftime(daily_reviews[k].date)
       /\ raw_reviews[daily_reviews[k].reviewId].batch_date # Target
       /\ raw_reviews[daily_reviews[m].reviewId].batch_date = Target
       /\ raw_reviews[daily_reviews[m].reviewId].date
            = strftime(daily_reviews[m].date)

\* C21: the inserted count. The commit of a store call writes, in the
\* batch_processing row of the batch date, the number of identifiers of the
\* batch that were not stored before the call, whatever the row held before,
\* and leaves the rows of the other batch dates as they were; for a batch
\* whose identifiers are all stored that number is zero and the commit is
\* still possible.
C21_InsertedCount ==
  /\ [](pc = "store" => ENABLED StoreCommit)
  /\ [][(pc = "store" /\ pc' = "mark") =>
          /\ DOMAIN batch_processing' = DOMAIN batch_processing \cup {Target}
          /\ batch_processing'[Target] =
               Card(FrameIds(daily_reviews) \ StoredIds)
          /\ \A s \in DOMAIN batch_processing :
               s # Target => batch_processing'[s] = batch_processing[s]]_vars
  /\ [][~(pc = "store" /\ pc' = "mark") =>
          batch_processing' = batch_processing]_vars

\* the replay of a stored batch of two reviews under its batch date set the
\* row to zero
C21_Witness ==
  /\ pc = "mark"
  /\ Len(daily_reviews) = 2
  /\ batch_processing[Target] = 0
  /\ \A k \in 1..2 : raw_reviews[daily_reviews[k].reviewId].batch_date = Target
  /\ processing_status.total_batches_processed >= 1

\* C22 as stated: a review without an identifier gets the same synthesized
\* identifier in every process that stores it, so storing the reviews of the
\* feed again never adds a row: the stored rows are never more than the
\* reviews of the feed.
C22_SynthesizedIdStable == Card(StoredIds) <= Len(feed)

\* C27: the batch counter. Every _mark_date_processed adds exactly one to
\* total_batches_processed, makes the date last_processed_date and sets the
\* date's statistics to the review count of the call, leaving the other
\* dates' statistics alone; a date that is in the processed set leaves the
\* set as it is and any other date is appended; no other step of a living
\* processor changes the progress state.
C27_MarkCountsEveryCall ==
  /\ [][(pc = "mark" /\ pc' = "save") =>
          /\ processing_status'.total_batches_processed =
               processing_status.total_batches_processed + 1
          /\ processing_status'.last_processed_date = Target
          /\ processing_status'.processed_dates =
               IF Target \in Range(processing_status.processed_dates)
               THEN processing_status.processed_dates
               ELSE Append(processing_status.processed_dates, Target)
          /\ DOMAIN processing_status'.batch_stats =
               DOMAIN processing_status.batch_stats \cup {Target}
          /\ processing_status'.batch_stats[Target].review_count =
               Len(daily_reviews)
          /\ \A s \in DOMAIN processing_status.batch_stats :
               s # Target => processing_status'.batch_stats[s] =
                               processing_status.batch_stats[s]]_vars
  /\ [][~(pc = "mark" /\ pc' = "save") =>
          processing_status' = processing_status]_vars

\* a date that is in the flushed processed set was marked a second time,
\* with another review count
C27_Witness ==
  /\ pc = "save"
  /\ Target \in FileDates
  /\ StatsCount(status_file.data, Target) # StatsCount(processing_status, Target)
  /\ processing_status.total_batches_processed = 2
  /\ processing_status.processed_dates = <<Target>>
  /\ processing_status.last_processed_date = Target

\* C30: termination of the fetch. Over a feed that ends, for any days_range
\* and reviews_per_day from zero on, the fetch eventually returns or raises;
\* a page is requested only by the while loop, and the loop is never back at
\* its test or at a request once a page came empty or without a
\* continuation token.
Fetching == pc \in {"while", "request", "got", "for"}
C30_FetchTerminates ==
  /\ <>(~Fetching)
  /\ [][pc' = "request" => pc = "while"]_vars
  /\ []((pc \in {"while", "request"} /\ continuation_token = NoToken) =>
          (batch = <<>> /\ all_reviews = <<>> /\ daily_review_counts = <<>>))
  /\ [][(pc \in {"got", "for"}
           /\ (batch = <<>> \/ continuation_token = NoToken)) =>
          pc' \in {"for", "df"}]_vars

\* with a quota of zero the fetch went through a feed of more than one page
\* to its last page and left the loop there
C30_Witness ==
  /\ pc = "df"
  /\ reviews_per_day = 0
  /\ Len(feed) > PageSize
  /\ batch = FeedPage(feed, 2)
  /\ continuation_token = NoToken
  /\ all_reviews = <<>>

\* the registered strings no registered string is more similar to t than
Nearest(t) ==
  {n \in Documents(collection) :
     \A m \in Documents(collection) : similarity(t, n) >= similarity(t, m)}

\* a pass of the loop of consolidate_topics has handled one more topic
LoopPass ==
  /\ pc = "consolidating"
  /\ Len(consolidated_topics') = Len(consolidated_topics) + 1

Input == raw_topics'[Len(raw_topics')]
Output == consolidated_topics'[Len(consolidated_topics')]
Rewritten(t) == "original_topic" \in DOMAIN t

\* C23: for each input topic in order the single nearest registered string
\* decides. When its similarity reaches the threshold and it is another
\* string, the output carries it as topic_name and the input string as
\* original_topic, and the registry is unchanged; otherwise the output is
\* the input unchanged and the input string is registered. A string within
\* the threshold of another registered string comes out under a registered
\* name and not its own; there is one output per input, in input order.
C23_ConsolidationRule ==
  /\ [](Len(consolidated_topics) = Len(raw_topics))
  /\ [][LoopPass =>
          /\ SubSeq(consolidated_topics', 1, Len(consolidated_topics))
               = consolidated_topics
          /\ \/ \E n \in Nearest(Input.topic_name) :
                  /\ similarity(Input.topic_name, n) >= similarity_threshold
                  /\ n # Input.topic_name
                  /\ Output = [topic_name |-> n,
                               original_topic |-> Input.topic_name]
                  /\ collection' = collection
             \/ /\ \E n \in Nearest(Input.topic_name) \cup {None} :
                     \/ n = None /\ collection = {}
                     \/ /\ n # None
                        /\ \/ similarity(Input.topic_name, n)
                                < similarity_threshold
                           \/ n = Input.topic_name
                /\ Output = Input
                /\ Documents(collection')
                     = Documents(collection) \cup {Input.topic_name}
          /\ (\E r \in Documents(collection) :
                /\ r # Input.topic_name
                /\ similarity(Input.topic_name, r) >= similarity_threshold)
             => /\ Output.topic_name \in Documents(collection)
                /\ Output.topic_name # Input.topic_name]_vars

\* a call was given a string, a second string whose similarity to the first
\* is exactly the threshold, and a third far from both: the second came out
\* under the name of the first, the third under its own
C23_Witness ==
  /\ pc = "idle"
  /\ Len(raw_topics) = 3
  /\ similarity(raw_topics[1].topic_name, raw_topics[2].topic_name)
       = similarity_threshold
  /\ consolidated_topics[1] = raw_topics[1]
  /\ consolidated_topics[2] =
       [topic_name |-> raw_topics[1].topic_name,
        original_topic |-> raw_topics[2].topic_name]
  /\ consolidated_topics[3] = raw_topics[3]
  /\ Documents(collection) =
       {raw_topics[1].topic_name, raw_topics[3].topic_name}
  /\ Cardinality(Documents(collection)) = 2

\* C24 as stated: a string given twice to consolidate_topics comes out
\* under the same canonical topic_name both times, whatever was consolidated
\* in between; here for two places of the list of one call.
C24_SameNameBothTimes ==
  \A a \in 1..Len(consolidated_topics) :
    \A b \in 1..Len(consolidated_topics) :
      raw_topics[a].topic_name = raw_topics[b].topic_name
        => consolidated_topics[a].topic_name
             = consolidated_topics[b].topic_name

\* C25: the registry is append-only. No step of consolidate_topics removes
\* or replaces a record of the collection, so the set of registered strings
\* only grows; and a string a call has rewritten to a canonical name is not
\* among the registered strings, so that call has not added it.
C25_RegistryAppendOnly ==
  /\ [][/\ collection \subseteq collection'
        /\ Documents(collection) \subseteq Documents(collection')]_vars
  /\ [](\A j \in 1..Len(consolidated_topics) :
          Rewritten(consolidated_topics[j])
            => consolidated_topics[j].original_topic
                 \notin Documents(collection))

\* a call has registered a string on top of an earlier one and rewritten
\* another, which the registry does not hold
C25_Witness ==
  /\ Cardinality(collection) >= 2
  /\ \E j \in 1..Len(consolidated_topics) :
       /\ Rewritten(consolidated_topics[j])
       /\ consolidated_topics[j].original_topic \notin Documents(collection)
       /\ \E h \in 1..Len(consolidated_topics) :
            /\ h > j
            /\ ~Rewritten(consolidated_topics[h])

\* the first pass of a call handles A, which the registry does not hold
FirstOfPair(A, B) ==
  /\ pc = "consolidating"
  /\ raw_topics = <<>>
  /\ raw_topics' = <<[topic_name |-> A]>>
  /\ A # B
  /\ similarity(A, B) >= similarity_threshold
  /\ A \notin Documents(collection)
  /\ B \notin Documents(collection)

\* the second pass handles B after A came out under its own name
SecondOfPair(A, B) ==
  /\ pc = "consolidating"
  /\ raw_topics = <<[topic_name |-> A]>>
  /\ consolidated_topics = <<[topic_name |-> A]>>
  /\ raw_topics' = <<[topic_name |-> A], [topic_name |-> B]>>
  /\ A # B
  /\ similarity(A, B) >= similarity_threshold
  /\ A \in Documents(collection)
  /\ B \notin Documents(collection)

\* no registered string other than A is within the threshold of t
NothingElseNear(t, A) ==
  \A r \in Documents(collection) \ {A} :
    similarity(t, r) < similarity_threshold

RegistersAndKeeps(A) ==
  /\ consolidated_topics' = <<[topic_name |-> A]>>
  /\ Documents(collection') = Documents(collection) \cup {A}

RewritesTo(A, B) ==
  /\ consolidated_topics' =
       <<[topic_name |-> A], [topic_name |-> A, original_topic |-> B]>>
  /\ collection' = collection

KeepsEarlierOutputs ==
  (pc = "consolidating" /\ pc' = "consolidating")
    => SubSeq(consolidated_topics', 1, Len(consolidated_topics))
         = consolidated_topics

\* C29 as stated: for two different strings A and B within the threshold of
\* each other and a registry holding neither, consolidating [A, B]
\* registers A only and gives A for both (and [B, A] registers B only and
\* gives B for both); a later pass never changes an earlier output.
C29_FirstSeenSticky ==
  [][/\ \A A \in Topics : \A B \in Topics :
          /\ FirstOfPair(A, B) => RegistersAndKeeps(A)
          /\ SecondOfPair(A, B) => RewritesTo(A, B)
     /\ KeepsEarlierOutputs]_vars

\* C29 amended: the same when, besides, the registry holds no string within
\* the threshold of A or of B.
C29_FirstSeenStickyAmended ==
  [][/\ \A A \in Topics : \A B \in Topics :
          /\ (FirstOfPair(A, B) /\ NothingElseNear(A, A))
               => RegistersAndKeeps(A)
          /\ (SecondOfPair(A, B) /\ NothingElseNear(B, A))
               => RewritesTo(A, B)
     /\ KeepsEarlierOutputs]_vars

\* [2, 1] was consolidated over a registry that held a third string far
\* from both: 2 was registered, 1 came out as 2 and was not registered
C29_Witness ==
  /\ pc = "idle"
  /\ similarity(1, 2) >= similarity_threshold
  /\ raw_topics = <<[topic_name |-> 2], [topic_name |-> 1]>>
  /\ consolidated_topics =
       <<[topic_name |-> 2], [topic_name |-> 2, original_topic |-> 1]>>
  /\ Documents(collection) = {2, 3}

\* the chunks extract_topics_from_batch cuts a frame of n reviews into
NumChunks(n) == (n + chunk_size - 1) \div chunk_size
ChunkAt(c) ==
  SubSeq(reviews_df, (c - 1) * chunk_size + 1,
         Min(c * chunk_size, Len(reviews_df)))

BadAnswer(r) == r.kind \in {"misshapen", "truncated", "prose", "failed"}

\* what the answers logged from place c on are to contribute: nothing for
\* a bad answer, every named topic on every review of the chunk otherwise
RECURSIVE Contribution(_)
Contribution(c) ==
  IF c > Len(llm_log) THEN <<>>
  ELSE (IF BadAnswer(llm_log[c].response) THEN <<>>
        ELSE topics_data(llm_log[c].response.topics, llm_log[c].chunk))
       \o Contribution(c + 1)

\* C26: a chunk whose answer is malformed, is not JSON, or whose oracle
\* call failed contributes no topic; no exception leaves
\* extract_topics_from_batch; and every chunk of the batch, those after a
\* bad answer included, is sent to the oracle and its topics are in the
\* result.
C26_BadAnswerCostsOneChunk ==
  /\ [](/\ all_topics = Contribution(1)
        /\ \A c \in 1..Len(llm_log) : llm_log[c].chunk = ChunkAt(c)
        /\ (pc = "idle" => Len(llm_log) = NumChunks(Len(reviews_df))))
  /\ [][pc = "extracting" => pc' \in {"extracting", "idle"}]_vars

\* a call has returned after a misshapen answer that named a topic before
\* it broke, and the chunk after it contributed its topics
C26_Witness ==
  /\ pc = "idle"
  /\ Len(llm_log) = 2
  /\ llm_log[1].response.kind = "misshapen"
  /\ llm_log[1].response.topics # <<>>
  /\ llm_log[1].response.topics[1] # Blank
  /\ llm_log[2].response.kind = "json"
  /\ all_topics # <<>>
  /\ \A t \in 1..Len(all_topics) :
       all_topics[t].review_id \in Range(llm_log[2].chunk)

\* C28 as stated: with reviews stored, the second-stage pass gets through
\* the construction of Phase2Processor, on to process_all_batches and its
\* read, extraction, consolidation and persistence of each stored day; it
\* does not end in the constructor.
C28_Phase2PassRuns == raw_reviews # <<>> => pc # "phase2_failed"

\* process_historical_data returns its summary
RunEnds == pc = "loop" /\ pc' = "idle"

\* C31 as stated: when a run of process_historical_data ends, no date of
\* its failed_dates is in the processed set, neither in memory nor in the
\* status file.
C31_FailedDatesNotProcessed ==
  [][RunEnds =>
       \A k \in 1..Len(result'.failed_dates) :
         /\ strftime(result'.failed_dates[k])
              \notin Range(processing_status'.processed_dates)
         /\ strftime(result'.failed_dates[k]) \notin FileDates']_vars

\* what one store_daily_batch call is to leave in the two tables
WholeBatch ==
  /\ raw_reviews' =
       InsertOrIgnore(raw_reviews, Records(daily_reviews, target_date))
  /\ batch_processing' =
       InsertOrReplace(batch_processing, strftime(target_date),
         inserted_count(raw_reviews, Records(daily_reviews, target_date)))

\* C32: store_daily_batch is atomic per call. Every step of the call, a
\* failure or a kill included, leaves the two tables as they were, except
\* the one commit, which makes the review rows of the batch and its batch
\* row durable together: no durable state holds the batch row without the
\* review rows, or a part of the review rows.
C32_StoreIsAtomic ==
  [][\/ UNCHANGED <<raw_reviews, batch_processing>>
     \/ (pc = "commit" /\ pc' = "mark" /\ WholeBatch)]_vars

\* a call raised inside store_daily_batch and returned: its new row and
\* the batch row of its date are not durable, next to the batch an earlier
\* call committed
C32_Witness ==
  /\ pc = "ret"
  /\ exc = "store"
  /\ Len(daily_reviews) >= 2
  /\ \E k \in 1..Len(daily_reviews) :
       daily_reviews[k].reviewId \notin StoredIds
  /\ strftime(target_date) \notin DOMAIN batch_processing
  /\ raw_reviews # <<>>

\* the counter, the statistics and the last date of a status agree with
\* its processed set
StatusAgrees(status) ==
  /\ status.total_batches_processed = Len(status.processed_dates)
  /\ Card(Range(status.processed_dates)) = Len(status.processed_dates)
  /\ DOMAIN status.batch_stats = Range(status.processed_dates)
  /\ \/ status.last_processed_date = null /\ status.processed_dates = <<>>
     \/ status.last_processed_date \in Range(status.processed_dates)

\* C33: from an absent status file, with the progress store driven by
\* process_historical_data only, no date is marked twice: a date that is
\* marked is neither in the processed set in memory nor in the one of the
\* file. So in every state total_batches_processed is the number of
\* processed dates, the statistics hold one entry per processed date, and
\* last_processed_date is unset with no date processed or is a processed
\* date; in memory and in the status file alike.
C33_NoDateMarkedTwice ==
  /\ [][(pc = "mark" /\ pc' = "save") =>
          /\ Target \notin Range(processing_status.processed_dates)
          /\ Target \notin FileDates]_vars
  /\ [](/\ StatusAgrees(processing_status)
        /\ status_file.kind = "json" => StatusAgrees(status_file.data))

\* a run that found one date unprocessed has marked and flushed it, next
\* to the date an earlier run had processed under its own batch
C33_Witness ==
  /\ pc = "ret"
  /\ success
  /\ status_file.kind = "json"
  /\ Len(status_file.data.processed_dates) = 2
  /\ status_file.data.total_batches_processed = 2
  /\ unprocessed_dates = <<target_date>>
  /\ \E id \in StoredIds : raw_reviews[id].batch_date # Target

====
